---- MODULE Spec2Model ----
(***************************************************************************)
(* The DTensor factory functions `ones` and `zeros` of                     *)
(* torch/distributed/_tensor/__init__.py.                                  *)
(*                                                                         *)
(* Every participant (process rank) of a device mesh calls a factory with  *)
(* a size, an optional device mesh, an optional placements sequence and a  *)
(* layout.  The factory resolves the mesh and the placements, checks the   *)
(* placements against the mesh, normalizes the size, computes the local    *)
(* shape, allocates the local tensor and wraps it in a DTensor that        *)
(* carries the global shape and the global stride.                         *)
(*                                                                         *)
(* The collaborators the factories import (compute_local_shape,            *)
(* DeviceMesh, make_contiguous_strides_for, the torch allocator, DTensor)  *)
(* are modelled from the specification text, sections 4.1, 6 and 7.        *)
(***************************************************************************)
EXTENDS Integers, Sequences, FiniteSets, TLC

VARIABLES
    global_mesh,   \* the process-wide ambient mesh (get_global_device_mesh())
    reqs,          \* reqs[rank]: the arguments that participant passes
    out            \* out[rank]: what that participant's latest call produced

vars == <<global_mesh, reqs, out>>

---------------------------------------------------------------------------
(* Bounds of the model. *)

MaxRank == 2        \* global shapes have 0..MaxRank dimensions
MaxDim == 2         \* every dimension of a global shape is in 0..MaxDim
MaxRanks == 3       \* a mesh holds at most MaxRanks participants
MaxShardRanks == 4  \* participants of a single-Shard round
MaxShardDim == 10   \* bound of the sharded dimension in a single-Shard round
MaxOtherDim == 3    \* bound of its other dimensions
MaxGridRanks == 6   \* participants of a two-axis Shard round
MaxGridDim == 7     \* dimension bound of a two-axis Shard round
MaxFreeDim == 2     \* dimension bound when every participant picks its own arguments

---------------------------------------------------------------------------
(* Values. *)

strided == "torch.strided"
sparse_coo == "torch.sparse_coo"
Layouts == {strided, sparse_coo}

NoDim == 0 - 1
Replicate == [kind |-> "Replicate", dim |-> NoDim]
Partial == [kind |-> "_Partial", dim |-> NoDim]
Shard(d) == [kind |-> "Shard", dim |-> d]

\* Optional arguments: None, or a value.
None == [given |-> FALSE, val |-> <<>>]
Some(v) == [given |-> TRUE, val |-> v]

Forms == {"variadic", "sequence"}

RECURSIVE SeqProduct(_)
SeqProduct(s) == IF s = <<>> THEN 1 ELSE Head(s) * SeqProduct(Tail(s))

\* Sequences over S of length lo..hi.
SeqsOf(S, lo, hi) == UNION {[1..n -> S] : n \in lo..hi}

Shapes(maxRank, maxDim) == SeqsOf(0..maxDim, 0, maxRank)

\* Meshes of one or two axes, given by their axis extents, with at most n participants.
Meshes(n) == {m \in SeqsOf(1..n, 1, 2) : SeqProduct(m) <= n}

---------------------------------------------------------------------------
(* DeviceMesh: ndim, the extent of an axis, and the coordinate of a rank.  *)
(* The mesh is the ranks 0..n-1 laid out row-major over the axis extents.  *)

mesh_ndim(mesh) == Len(mesh)

mesh_size(mesh, i) == mesh[i]

RECURSIVE get_coordinate(_, _)
get_coordinate(mesh, rank) ==
    IF mesh = <<>> THEN <<>>
    ELSE LET inner == SeqProduct(Tail(mesh))
         IN <<rank \div inner>> \o get_coordinate(Tail(mesh), rank % inner)

Ranks(mesh) == 0..(SeqProduct(mesh) - 1)

---------------------------------------------------------------------------
(* compute_local_shape, after section 4.1 of the specification.            *)

\* Ceiling division by a positive divisor.
CeilDiv(a, b) == 0 - ((0 - a) \div b)

\* Shard(d) over an axis of extent k, for the participant at position r:
\* chunk = ceil(extent / k) for every participant but the last, which
\* receives the remainder extent - chunk * (k - 1).
local_shard_size(extent, k, r) ==
    LET chunk == CeilDiv(extent, k)
    IN IF r < k - 1 THEN chunk ELSE extent - chunk * (k - 1)

\* One mesh axis applied to the shape computed so far.  A Shard of a
\* dimension the shape does not have has nothing to divide: the call fails.
apply_placement(res, placement, k, r) ==
    IF ~res.ok THEN res
    ELSE IF placement.kind # "Shard" THEN res
    ELSE IF placement.dim + 1 > Len(res.shape) THEN [ok |-> FALSE, shape |-> res.shape]
    ELSE [ok |-> TRUE,
          shape |-> [res.shape EXCEPT ![placement.dim + 1] =
                        local_shard_size(res.shape[placement.dim + 1], k, r)]]

\* The mesh axes are applied left to right, starting from the global shape.
RECURSIVE fold_axes(_, _, _, _, _)
fold_axes(res, mesh, placements, coord, i) ==
    IF i > Len(placements) THEN res
    ELSE fold_axes(apply_placement(res, placements[i], mesh_size(mesh, i), coord[i]),
                   mesh, placements, coord, i + 1)

compute_local_shape(global_shape, mesh, placements, rank) ==
    fold_axes([ok |-> TRUE, shape |-> global_shape], mesh, placements,
              get_coordinate(mesh, rank), 1)

---------------------------------------------------------------------------
(* The tensor engine.                                                      *)

\* torch._prims_common.make_contiguous_strides_for: row-major strides,
\* built from the last dimension backwards.
RECURSIVE make_contiguous_strides_for(_)
make_contiguous_strides_for(shape) ==
    IF shape = <<>> THEN <<>>
    ELSE LET rest == make_contiguous_strides_for(Tail(shape))
         IN IF rest = <<>> THEN <<1>>
            ELSE <<shape[2] * rest[1]>> \o rest

\* The constant-fill allocator: it cannot satisfy a negative dimension.
NoTensor == [ok |-> FALSE, shape |-> <<>>, fill |-> NoDim, layout |-> strided]
allocate(shape, fill, layout) ==
    IF \E i \in 1..Len(shape) : shape[i] < 0 THEN NoTensor
    ELSE [ok |-> TRUE, shape |-> shape, fill |-> fill, layout |-> layout]

\* torch.tensor([]): the tensor built from the empty list has one
\* dimension of extent 0, and no element to fill.
empty_tensor == [ok |-> TRUE, shape |-> <<0>>, fill |-> NoDim, layout |-> strided]

---------------------------------------------------------------------------
(* The size argument: the tuple of positional arguments, each an integer   *)
(* or a sequence of integers.                                              *)

IntArg(n) == [is_seq |-> FALSE, int |-> n, items |-> <<>>]
SeqArg(s) == [is_seq |-> TRUE, int |-> 0, items |-> s]

\* f(n1, ..., nm) and f([n1, ..., nm]).
SizeArgs(dims, form) ==
    IF form = "sequence" THEN <<SeqArg(dims)>>
    ELSE [i \in 1..Len(dims) |-> IntArg(dims[i])]

---------------------------------------------------------------------------
(* The steps of the two factories.                                         *)

(* Each step is preceded by the faulty variants the properties below are   *)
(* checked to tell apart from it.                                           *)

\* device_mesh = get_global_device_mesh() if device_mesh is None else device_mesh
resolve_device_mesh(device_mesh) ==
    IF device_mesh.given THEN device_mesh.val ELSE global_mesh

\* Faulty: a single default Replicate, whatever the mesh.
resolve_placements_single(placements, device_mesh) ==
    IF placements.given THEN placements.val ELSE <<Replicate>>

\* placements = [Replicate() for _ in range(device_mesh.ndim)] if placements is None
resolve_placements(placements, device_mesh) ==
    IF placements.given THEN placements.val
    ELSE [i \in 1..mesh_ndim(device_mesh) |-> Replicate]

\* Faulty: the placements are checked against the ambient mesh.
placements_match_ambient(device_mesh, placements) ==
    mesh_ndim(global_mesh) = Len(placements)

\* assert device_mesh.ndim == len(placements)
placements_match(device_mesh, placements) ==
    mesh_ndim(device_mesh) = Len(placements)

\* Faulty: always list(size), a sequence argument is not unwrapped.
normalize_size_list(size) ==
    [i \in 1..Len(size) |-> size[i].int]

\* normalize the size argument
normalize_size(size) ==
    IF Len(size) = 1 /\ size[1].is_seq THEN size[1].items
    ELSE [i \in 1..Len(size) |-> size[i].int]

\* Faulty: the layout is not checked.
layout_unchecked(layout) == layout \in Layouts

\* assert layout == torch.strided
layout_supported(layout) == layout = strided

\* Faulty: the default placements are passed instead of the caller's.
get_local_shape_replicated(torch_size, device_mesh, placements, rank) ==
    compute_local_shape(torch_size, device_mesh,
                        [i \in 1..Len(placements) |-> Replicate], rank)

\* Faulty: the position on the mesh is counted from the end.
get_local_shape_mirrored(torch_size, device_mesh, placements, rank) ==
    compute_local_shape(torch_size, device_mesh, placements,
                        SeqProduct(device_mesh) - 1 - rank)

\* Faulty: only the first mesh axis is applied.
get_local_shape_first_axis(torch_size, device_mesh, placements, rank) ==
    compute_local_shape(torch_size, device_mesh,
                        [i \in 1..Len(placements) |->
                            IF i = 1 THEN placements[i] ELSE Replicate], rank)

\* get local tensor shape
get_local_shape(torch_size, device_mesh, placements, rank) ==
    compute_local_shape(torch_size, device_mesh, placements, rank)

\* initialize the local tensor
init_local_tensor(local_shape, fill, layout) ==
    IF Len(local_shape) = 0 THEN empty_tensor
    ELSE allocate(local_shape, fill, layout)

\* compute dtensor stride from the size argument
dtensor_stride(torch_size) ==
    make_contiguous_strides_for(torch_size)

\* DTensor(local_tensor, device_mesh, placements, shape=..., stride=...)
NoDTensor ==
    [made |-> FALSE, local_tensor |-> NoTensor, device_mesh |-> <<>>,
     placements |-> <<>>, shape |-> <<>>, stride |-> <<>>]
DTensor(local_tensor, device_mesh, placements, shape, stride) ==
    [made |-> TRUE, local_tensor |-> local_tensor, device_mesh |-> device_mesh,
     placements |-> placements, shape |-> shape, stride |-> stride]

\* Faulty: the stride is taken from the local tensor.
ones_return_local_stride(local_tensor, device_mesh, placements, torch_size, torch_stride) ==
    DTensor(local_tensor, device_mesh, placements, torch_size,
            make_contiguous_strides_for(local_tensor.shape))

\* return DTensor(local_tensor, device_mesh, placements, shape=torch_size, stride=torch_stride)
ones_return(local_tensor, device_mesh, placements, torch_size, torch_stride) ==
    DTensor(local_tensor, device_mesh, placements, torch_size, torch_stride)

zeros_return(local_tensor, device_mesh, placements, torch_size, torch_stride) ==
    DTensor(local_tensor, device_mesh, placements, torch_size, torch_stride)

\* What a call leaves behind: how it ended, the steps it reached, and the
\* DTensor it returned.
NoResult ==
    [status |-> "none", error |-> "", fn |-> "",
     shape_computed |-> FALSE, local_shape |-> <<>>,
     alloc_called |-> FALSE, dtensor |-> NoDTensor]

Raised(fn, error, shape_computed, local_shape, alloc_called) ==
    [status |-> "error", error |-> error, fn |-> fn,
     shape_computed |-> shape_computed, local_shape |-> local_shape,
     alloc_called |-> alloc_called, dtensor |-> NoDTensor]

Returned(fn, local_shape, dtensor) ==
    [status |-> "ok", error |-> "", fn |-> fn,
     shape_computed |-> TRUE, local_shape |-> local_shape,
     alloc_called |-> TRUE, dtensor |-> dtensor]

\* ones(*size, layout=..., device_mesh=..., placements=...) on participant rank.
ones_call(req, rank) ==
    LET device_mesh == resolve_device_mesh(req.device_mesh)
        placements == resolve_placements(req.placements, device_mesh)
    IN IF ~placements_match(device_mesh, placements)
       THEN Raised("ones", "placements", FALSE, <<>>, FALSE)
       ELSE
       LET torch_size == normalize_size(req.size)
           local == get_local_shape(torch_size, device_mesh, placements, rank)
       IN IF ~local.ok
          THEN Raised("ones", "shard_dim", TRUE, <<>>, FALSE)
          ELSE
          LET local_tensor == init_local_tensor(local.shape, 1, req.layout)
          IN IF ~local_tensor.ok
             THEN Raised("ones", "allocation", TRUE, local.shape, TRUE)
             ELSE Returned("ones", local.shape,
                           ones_return(local_tensor, device_mesh, placements,
                                       torch_size, dtensor_stride(torch_size)))

\* zeros(*size, layout=..., device_mesh=..., placements=...) on participant rank.
zeros_call(req, rank) ==
    LET device_mesh == resolve_device_mesh(req.device_mesh)
        placements == resolve_placements(req.placements, device_mesh)
    IN IF ~placements_match(device_mesh, placements)
       THEN Raised("zeros", "placements", FALSE, <<>>, FALSE)
       ELSE
       LET torch_size == normalize_size(req.size)
       IN IF ~layout_supported(req.layout)
          THEN Raised("zeros", "layout", FALSE, <<>>, FALSE)
          ELSE
          LET torch_stride == dtensor_stride(torch_size)
              local == get_local_shape(torch_size, device_mesh, placements, rank)
          IN IF ~local.ok
             THEN Raised("zeros", "shard_dim", TRUE, <<>>, FALSE)
             ELSE
             LET local_tensor == init_local_tensor(local.shape, 0, req.layout)
             IN IF ~local_tensor.ok
                THEN Raised("zeros", "allocation", TRUE, local.shape, TRUE)
                ELSE Returned("zeros", local.shape,
                              zeros_return(local_tensor, device_mesh, placements,
                                           torch_size, torch_stride))

---------------------------------------------------------------------------
(* Actions: a participant calls a factory with its arguments.              *)

\* Faulty: the result is kept in a slot all participants share.
ones_shared(rank) ==
    /\ out' = [p \in DOMAIN out |-> ones_call(reqs[rank], rank)]
    /\ UNCHANGED <<global_mesh, reqs>>

ones(rank) ==
    /\ out' = [out EXCEPT ![rank] = ones_call(reqs[rank], rank)]
    /\ UNCHANGED <<global_mesh, reqs>>

zeros(rank) ==
    /\ out' = [out EXCEPT ![rank] = zeros_call(reqs[rank], rank)]
    /\ UNCHANGED <<global_mesh, reqs>>

Next == \E rank \in DOMAIN out : ones(rank) \/ zeros(rank)

---------------------------------------------------------------------------
(* Initial states: the ambient mesh is set, nobody has called yet.         *)

\* An explicit mesh covers the same participants as the ambient one.
MeshArgs(mesh, n) ==
    {None} \cup {Some(m) : m \in {x \in Meshes(n) : SeqProduct(x) = SeqProduct(mesh)}}

ShardDims == {0, 1}
PlacementKinds == {Replicate, Partial} \cup {Shard(d) : d \in ShardDims}
PlacementArgs == {None} \cup {Some(ps) : ps \in SeqsOf(PlacementKinds, 0, 2)}

Requests(mesh, n, shapes) ==
    [size : {SizeArgs(dims, form) : dims \in shapes, form \in Forms},
     layout : Layouts,
     device_mesh : MeshArgs(mesh, n),
     placements : PlacementArgs]

\* One participant process of the mesh, with the arguments it passes.
Init ==
    /\ global_mesh \in Meshes(MaxRanks)
    /\ \E me \in Ranks(global_mesh) :
           /\ reqs \in [{me} -> Requests(global_mesh, MaxRanks, Shapes(MaxRank, MaxDim))]
           /\ out = [rank \in {me} |-> NoResult]

Spec == Init /\ [][Next]_vars

---------------------------------------------------------------------------
(* Rounds with one Shard placement over a one-axis mesh: every participant *)
(* of the mesh passes the same arguments.                                  *)

ShardShapes(d) ==
    {s \in Shapes(MaxRank, MaxShardDim) :
        \A i \in 1..Len(s) : i # d + 1 => s[i] <= MaxOtherDim}

InitShard ==
    /\ global_mesh \in {<<k>> : k \in 1..MaxShardRanks}
    /\ \E d \in ShardDims :
       \E req \in [size : {SizeArgs(dims, "variadic") : dims \in ShardShapes(d)},
                   layout : {strided},
                   device_mesh : {None},
                   placements : {Some(<<Shard(d)>>)}] :
           reqs = [rank \in Ranks(global_mesh) |-> req]
    /\ out = [rank \in Ranks(global_mesh) |-> NoResult]

SpecShard == InitShard /\ [][Next]_vars

---------------------------------------------------------------------------
(* Rounds with two Shard placements over a two-axis mesh: every            *)
(* participant of the mesh passes the same arguments.                      *)

InitGrid ==
    /\ global_mesh \in {m \in Meshes(MaxGridRanks) : mesh_ndim(m) = 2}
    /\ \E req \in [size : {SizeArgs(dims, "sequence") :
                               dims \in Shapes(1, MaxGridDim)},
                   layout : {strided},
                   device_mesh : {None},
                   placements : {Some(<<Shard(d), Shard(d)>>) : d \in ShardDims}] :
           reqs = [rank \in Ranks(global_mesh) |-> req]
    /\ out = [rank \in Ranks(global_mesh) |-> NoResult]

SpecGrid == InitGrid /\ [][Next]_vars

---------------------------------------------------------------------------
(* Two participants, each passing arguments of its own.                    *)

FreeMeshes == {<<2>>, <<1, 2>>, <<2, 1>>}
FreePlacementArgs ==
    {None, Some(<<Replicate>>), Some(<<Shard(0)>>), Some(<<Shard(0), Replicate>>)}

InitFree ==
    /\ global_mesh \in FreeMeshes
    /\ reqs \in [Ranks(global_mesh) ->
                    [size : {SizeArgs(dims, form) :
                                 dims \in Shapes(1, MaxFreeDim), form \in Forms},
                     layout : Layouts,
                     device_mesh : {None},
                     placements : FreePlacementArgs]]
    /\ out = [rank \in Ranks(global_mesh) |-> NoResult]

SpecFree == InitFree /\ [][Next]_vars

---------------------------------------------------------------------------
(* Vocabulary of the properties.                                           *)

Participants == DOMAIN out

Called(p) == out[p].status # "none"

\* The integers a size argument names, whatever its form.
SizeInts(size) ==
    IF size = <<>> THEN <<>>
    ELSE IF size[1].is_seq THEN size[1].items
    ELSE [i \in 1..Len(size) |-> size[i].int]

GlobalShape(p) == SizeInts(reqs[p].size)

\* The mesh a participant's call runs on: the supplied one, or the ambient one.
MeshOf(p) == IF reqs[p].device_mesh.given THEN reqs[p].device_mesh.val ELSE global_mesh

SameArguments == \A p, q \in Participants : reqs[p] = reqs[q]

\* Every participant passes the single placement [Shard(d)] over a one-axis
\* mesh, and d is a dimension of the global shape.
SingleShardRound(d) ==
    /\ SameArguments
    /\ \A p \in Participants :
          /\ mesh_ndim(MeshOf(p)) = 1
          /\ reqs[p].placements = Some(<<Shard(d)>>)
          /\ d < Len(GlobalShape(p))

RECURSIVE SumUpTo(_, _)
SumUpTo(f, n) == IF n < 0 THEN 0 ELSE f[n] + SumUpTo(f, n - 1)

\* The sum over all participants of their local size in dimension d.
LocalSizeSum(d) ==
    SumUpTo([p \in Participants |-> out[p].local_shape[d + 1]],
            Cardinality(Participants) - 1)

---------------------------------------------------------------------------
\* C1: with the single placement [Shard(d)] over a one-axis mesh of extent k,
\* once all k participants have called a factory with identical arguments,
\* their local sizes in dimension d sum to S[d] and every other local
\* dimension equals that of S.
C1_ShardSizesSumToGlobal ==
    \A d \in ShardDims :
        (SingleShardRound(d) /\ \A p \in Participants : Called(p)) =>
            /\ \A p \in Participants :
                  /\ out[p].shape_computed
                  /\ Len(out[p].local_shape) = Len(GlobalShape(p))
                  /\ \A i \in 1..Len(GlobalShape(p)) :
                        i # d + 1 => out[p].local_shape[i] = GlobalShape(p)[i]
            /\ LocalSizeSum(d) = GlobalShape(0)[d + 1]

\* S = [10, 3] over four participants: local dimension-0 sizes [3, 3, 3, 1].
C1_Witness ==
    /\ global_mesh = <<4>>
    /\ SingleShardRound(0)
    /\ GlobalShape(0) = <<10, 3>>
    /\ \A p \in Participants : out[p].status = "ok"
    /\ [p \in Participants |-> out[p].dtensor.local_tensor.shape[1]] =
           [p \in 0..3 |-> IF p < 3 THEN 3 ELSE 1]
    /\ \E p, q \in Participants : out[p].fn = "ones" /\ out[q].fn = "zeros"

---------------------------------------------------------------------------
\* C7: with a single Shard(d) placement over a one-axis mesh, the local size
\* in dimension d is non-increasing in the participant coordinate, and the
\* participants holding less than participant 0 are the last ones of the axis.
C7_ShardSizesNonIncreasing ==
    \A d \in ShardDims :
        SingleShardRound(d) =>
            \A p, q \in Participants :
                (Called(p) /\ Called(q) /\ p < q) =>
                    /\ out[p].local_shape[d + 1] >= out[q].local_shape[d + 1]
                    /\ (Called(0) /\ out[p].local_shape[d + 1] < out[0].local_shape[d + 1])
                           => out[q].local_shape[d + 1] < out[0].local_shape[d + 1]

\* An uneven split: the last participant holds less than the first.
C7_Witness ==
    /\ SingleShardRound(1)
    /\ Cardinality(Participants) = 3
    /\ GlobalShape(0) = <<2, 7>>
    /\ \A p \in Participants : Called(p)
    /\ out[0].local_shape[2] = out[1].local_shape[2]
    /\ out[2].local_shape[2] < out[1].local_shape[2]

---------------------------------------------------------------------------
\* Every participant passes [Shard(d), Shard(d)] over a two-axis mesh, and d
\* is a dimension of the global shape.
DoubleShardRound(d) ==
    /\ SameArguments
    /\ \A p \in Participants :
          /\ mesh_ndim(MeshOf(p)) = 2
          /\ reqs[p].placements = Some(<<Shard(d), Shard(d)>>)
          /\ d < Len(GlobalShape(p))

\* C10: over a two-axis mesh of extents (k0, k1) with placements
\* [Shard(d), Shard(d)], the participant at (r0, r1) holds in dimension d the
\* size obtained by sharding S[d] over k0 at r0 and that result over k1 at
\* r1; summed over all k0 * k1 participants these sizes equal S[d].
C10_ShardComposesLeftToRight ==
    \A d \in ShardDims :
        DoubleShardRound(d) =>
            /\ \A p \in Participants :
                  Called(p) =>
                      LET mesh == MeshOf(p)
                          r0 == p \div mesh[2]
                          r1 == p % mesh[2]
                          first == local_shard_size(GlobalShape(p)[d + 1], mesh[1], r0)
                      IN /\ out[p].shape_computed
                         /\ out[p].local_shape[d + 1] =
                                local_shard_size(first, mesh[2], r1)
            /\ (\A p \in Participants : Called(p)) =>
                   LocalSizeSum(d) = GlobalShape(0)[d + 1]

\* Seven elements over a 2 x 3 mesh: 4 and 3 along the first axis, then
\* [2, 2, 0] and [1, 1, 1] along the second.
C10_Witness ==
    /\ global_mesh = <<2, 3>>
    /\ DoubleShardRound(0)
    /\ GlobalShape(0) = <<7>>
    /\ \A p \in Participants : out[p].status = "ok"
    /\ [p \in Participants |-> out[p].dtensor.local_tensor.shape] =
           [p \in 0..5 |-> <<(<<2, 2, 0, 1, 1, 1>>)[p + 1]>>]

---------------------------------------------------------------------------
\* The placements a participant supplies have a length other than the
\* dimensionality of its mesh.
PlacementsMismatch(p) ==
    /\ reqs[p].placements.given
    /\ Len(reqs[p].placements.val) # Len(MeshOf(p))

\* C2: a call of ones or zeros whose supplied placements differ in length
\* from the dimensionality of the supplied or ambient mesh fails, before the
\* local shape is computed and before any buffer is allocated, and returns
\* no DTensor.
C2_PlacementsLengthChecked ==
    \A p \in Participants :
        (Called(p) /\ PlacementsMismatch(p)) =>
            /\ out[p].status = "error"
            /\ ~out[p].shape_computed
            /\ ~out[p].alloc_called
            /\ ~out[p].dtensor.made

\* Two placements against a supplied one-axis mesh, the ambient mesh having two axes.
C2_Witness ==
    \E p \in Participants :
        /\ Called(p)
        /\ reqs[p].device_mesh.given
        /\ Len(reqs[p].device_mesh.val) = 1
        /\ Len(global_mesh) = 2
        /\ Len(reqs[p].placements.val) = 2
        /\ reqs[p].placements.given
        /\ out[p].error = "placements"

---------------------------------------------------------------------------
\* The placements are all Replicate, one per axis of the mesh: supplied so,
\* or omitted and synthesized by the factory.
AllReplicate(p) ==
    \/ ~reqs[p].placements.given
    \/ /\ Len(reqs[p].placements.val) = Len(MeshOf(p))
       /\ \A i \in 1..Len(reqs[p].placements.val) :
             reqs[p].placements.val[i] = Replicate

\* C3: with all-Replicate placements (supplied, or the defaults synthesized
\* when the argument is omitted) the call never fails the placements-length
\* precondition, and the local shape computed on every participant is the
\* global shape S.  (The only call that stops before computing a local shape
\* is zeros with an unsupported layout.)
C3_ReplicateKeepsGlobalShape ==
    \A p \in Participants :
        (Called(p) /\ AllReplicate(p)) =>
            /\ out[p].error # "placements"
            /\ \/ /\ out[p].status = "ok"
                  /\ out[p].shape_computed
                  /\ out[p].local_shape = GlobalShape(p)
               \/ /\ out[p].fn = "zeros"
                  /\ reqs[p].layout # strided
                  /\ out[p].error = "layout"

\* The placements are omitted on a two-axis mesh of two participants.
C3_Witness ==
    \E p \in Participants :
        /\ p > 0
        /\ ~reqs[p].placements.given
        /\ Len(MeshOf(p)) = 2
        /\ out[p].status = "ok"
        /\ out[p].dtensor.placements = <<Replicate, Replicate>>
        /\ out[p].local_shape = <<2, 1>>

---------------------------------------------------------------------------
\* Row-major contiguous strides: stride[i] is the product of S[i+1:].
RowMajorStride(S) == [i \in 1..Len(S) |-> SeqProduct(SubSeq(S, i + 1, Len(S)))]

\* C4: every successful call returns a DTensor whose global shape is S and
\* whose global stride is the row-major contiguous stride of S, whatever the
\* mesh, the placements and the participant.
C4_GlobalShapeAndStride ==
    \A p \in Participants :
        out[p].status = "ok" =>
            /\ out[p].dtensor.made
            /\ out[p].dtensor.shape = GlobalShape(p)
            /\ out[p].dtensor.stride = RowMajorStride(GlobalShape(p))

\* A sharded call: the local buffer is smaller than S, the stride is that of S.
C4_Witness ==
    \E p \in Participants :
        /\ out[p].status = "ok"
        /\ GlobalShape(p) = <<2, 2>>
        /\ out[p].dtensor.local_tensor.shape = <<2, 1>>
        /\ out[p].dtensor.stride = <<2, 1>>

---------------------------------------------------------------------------
\* The placements fit the mesh and shard no dimension.
ShardFreePlacements(p) ==
    \/ ~reqs[p].placements.given
    \/ /\ Len(reqs[p].placements.val) = Len(MeshOf(p))
       /\ \A i \in 1..Len(reqs[p].placements.val) :
             reqs[p].placements.val[i].kind # "Shard"

\* C5: for the global shape () and placements whose length fits the mesh (a
\* shape of rank 0 has no dimension to shard), ones and zeros with the
\* default layout return a DTensor whose local buffer has rank 0.
C5_ScalarShapeGivesRankZeroBuffer ==
    \A p \in Participants :
        (/\ Called(p)
         /\ GlobalShape(p) = <<>>
         /\ ShardFreePlacements(p)
         /\ reqs[p].layout = strided) =>
            /\ out[p].status = "ok"
            /\ Len(out[p].dtensor.local_tensor.shape) = 0

---------------------------------------------------------------------------
\* C6: zeros with a layout other than the strided one fails, for every
\* shape, mesh and placements that fit the mesh, before the local shape is
\* computed and before any buffer is allocated; with the strided layout the
\* layout check never fails.
C6_ZerosRejectsOtherLayouts ==
    \A p \in Participants :
        (Called(p) /\ out[p].fn = "zeros") =>
            /\ (reqs[p].layout # strided /\ ~PlacementsMismatch(p)) =>
                   /\ out[p].status = "error"
                   /\ out[p].error = "layout"
                   /\ ~out[p].shape_computed
                   /\ ~out[p].alloc_called
                   /\ ~out[p].dtensor.made
            /\ reqs[p].layout = strided => out[p].error # "layout"

\* zeros([2, 2]) with another layout.
C6_Witness ==
    \E p \in Participants :
        /\ out[p].fn = "zeros"
        /\ GlobalShape(p) = <<2, 2>>
        /\ reqs[p].layout = sparse_coo
        /\ reqs[p].placements.given
        /\ Len(reqs[p].placements.val) = 2
        /\ out[p].error = "layout"

---------------------------------------------------------------------------
\* Two participants name the same integers, one in the variadic form and one
\* in the single-sequence form, with the same layout, mesh and placements.
SameButForm(p, q) ==
    /\ reqs[p].size # reqs[q].size
    /\ Len(reqs[p].size) = 1 /\ reqs[p].size[1].is_seq
    /\ \A i \in 1..Len(reqs[q].size) : ~reqs[q].size[i].is_seq
    /\ SizeInts(reqs[p].size) = SizeInts(reqs[q].size)
    /\ reqs[p].layout = reqs[q].layout
    /\ reqs[p].device_mesh = reqs[q].device_mesh
    /\ reqs[p].placements = reqs[q].placements

\* The two participants sit at the same position of every mesh axis that
\* shards a dimension, so that their local shapes are comparable.
SameShardPosition(p, q) ==
    \A i \in 1..Len(MeshOf(p)) :
        (/\ reqs[p].placements.given
         /\ i <= Len(reqs[p].placements.val)
         /\ reqs[p].placements.val[i].kind = "Shard") =>
            get_coordinate(MeshOf(p), p)[i] = get_coordinate(MeshOf(q), q)[i]

---------------------------------------------------------------------------
---------------------------------------------------------------------------
\* The placements a call runs with fit its mesh: omitted, or one per axis.
PlacementsFit(p) ==
    ~reqs[p].placements.given \/ Len(reqs[p].placements.val) = Len(MeshOf(p))

\* C11: for every global shape S of non-negative integers, every mesh and
\* every placements sequence of matching length, every dimension of the
\* local shape computed for a participant lies in 0..S[dim]; in particular
\* the last participant's remainder extent - chunk * (axis_extent - 1) is
\* never negative, so the allocator is never asked for a negative dimension
\* and never fails on one.
C11_LocalDimsWithinGlobal ==
    \A p \in Participants :
        (Called(p) /\ PlacementsFit(p) /\ out[p].shape_computed) =>
            /\ out[p].error # "allocation"
            /\ \A i \in 1..Len(out[p].local_shape) :
                  /\ out[p].local_shape[i] >= 0
                  /\ out[p].local_shape[i] <= GlobalShape(p)[i]

\* The claim's own example, a reachable state: extent 5 over an axis of
\* extent 4 gives the local sizes [2, 2, 2, -1], and the last participant's
\* allocation fails.
C11_FiveOverFour ==
    /\ global_mesh = <<4>>
    /\ SingleShardRound(0)
    /\ GlobalShape(0) = <<5>>
    /\ \A p \in Participants : Called(p)
    /\ [p \in Participants |-> out[p].local_shape[1]] =
           [p \in 0..3 |-> IF p < 3 THEN 2 ELSE 0 - 1]
    /\ out[3].error = "allocation"

====
